---- MODULE Spec2Model ----
(***************************************************************************)
(* Model of the Zoom Scheduler Bridge (src/main.py): the two pure helpers  *)
(* convert_time_to_iso8601 and parse_candidate_name, the three upstream    *)
(* callers (token, meeting, booking) and the two POST handlers             *)
(* create_meeting and book_scheduler_meeting.                              *)
(*                                                                         *)
(* Python text that the code inspects character by character (start_time,  *)
(* candidate_name) is a sequence of one-character strings; text the code    *)
(* only passes along (tokens, e-mail addresses, URLs) is a TLA+ string.     *)
(* A Python value that may be None is a tagged record: None, S(x), I(n).    *)
(***************************************************************************)
EXTENDS Integers, Sequences, FiniteSets, TLC

VARIABLES
    config,                      \* ZOOM_CLIENT_ID, ZOOM_CLIENT_SECRET, ZOOM_ACCOUNT_ID
    today,                       \* the date datetime.utcnow() reports
    endpoint,                    \* handler serving the current request
    request,                     \* the validated request body
    pc,                          \* position of the handler in its code
    iso_start_time,              \* create_meeting local
    access_token,                \* handler local
    meeting_details,             \* create_meeting local
    meeting_response,            \* create_meeting local
    scheduler_booking_response,  \* create_meeting local
    workflow_status,             \* create_meeting local
    calls,                       \* upstream requests sent while serving the request
    response,                    \* what the HTTP client receives
    arg,                         \* argument of a helper called on its own
    ret                          \* what the helper returned

vars == <<config, today, endpoint, request, pc, iso_start_time, access_token,
          meeting_details, meeting_response, scheduler_booking_response,
          workflow_status, calls, response, arg, ret>>

---------------------------------------------------------------------------
(* Bounds of the model *)

MaxTimeLen == 3     \* longest start_time enumerated character by character
MaxNameLen == 5     \* longest candidate_name enumerated character by character

---------------------------------------------------------------------------
(* Python values *)

None == [t |-> "none"]
S(x) == [t |-> "str", s |-> x]
I(n) == [t |-> "int", n |-> n]

IsStr(v) == v.t = "str"
IsInt(v) == v.t = "int"

\* bool(v) for the values the code tests: None and "" are falsy
Truthy(v) == IF v.t = "str" THEN v.s # "" ELSE FALSE

\* str(v) as used on the meeting id
PyStr(v) == IF v.t = "none" THEN S("None")
            ELSE IF v.t = "int" THEN S(ToString(v.n))
            ELSE v

\* dict.get(key) and dict.get(key, default) on a JSON object given as a
\* function from the keys it has to their values
DictGet(d, key) == IF key \in DOMAIN d THEN d[key] ELSE None
DictGetDefault(d, key, default) == IF key \in DOMAIN d THEN d[key] ELSE default

\* all sequences over alphabet of length at most n
SeqsUpTo(alphabet, n) == UNION {[1..k -> alphabet] : k \in 0..n}

\* how a Python call ends
Return(v) == [kind |-> "return", value |-> v, status_code |-> 0, detail |-> ""]
RaiseHTTPException(code, text) ==
    [kind |-> "HTTPException", value |-> None, status_code |-> code, detail |-> text]
RaiseException(text) ==
    [kind |-> "Exception", value |-> None, status_code |-> 0, detail |-> text]

---------------------------------------------------------------------------
(* Time Normalizer: convert_time_to_iso8601 *)

DigitChars == <<"0", "1", "2", "3", "4", "5", "6", "7", "8", "9">>
IsDigit(c) == \E i \in 1..10 : DigitChars[i] = c
DigitVal(c) == (CHOOSE i \in 1..10 : DigitChars[i] = c) - 1

Contains(s, c) == \E i \in 1..Len(s) : s[i] = c

AllDigits(s, from, to) == \A i \in from..to : IsDigit(s[i])
Num2(s, i) == DigitVal(s[i]) * 10 + DigitVal(s[i + 1])
Num4(s, i) == Num2(s, i) * 100 + Num2(s, i + 2)

IsLeap(y) == (y % 4 = 0 /\ y % 100 # 0) \/ y % 400 = 0
DaysInMonth(y, m) == IF m = 2 THEN (IF IsLeap(y) THEN 29 ELSE 28)
                     ELSE IF m \in {4, 6, 9, 11} THEN 30 ELSE 31

\* The strings of the form  YYYY-MM-DD(" "|"T")HH:MM[:SS][" AM"|" PM"]
\* with a four-digit year not starting with 0.
HasSeconds(s) == Len(s) >= 19 /\ s[17] = ":"
AmPmAt(s) == IF HasSeconds(s) THEN 20 ELSE 17
HasAmPm(s) == Len(s) = AmPmAt(s) + 2

WellShaped(s) ==
    /\ Len(s) \in {16, 19, 22}
    /\ AllDigits(s, 1, 4) /\ s[1] # "0"
    /\ s[5] = "-" /\ AllDigits(s, 6, 7) /\ s[8] = "-" /\ AllDigits(s, 9, 10)
    /\ s[11] \in {" ", "T"}
    /\ AllDigits(s, 12, 13) /\ s[14] = ":" /\ AllDigits(s, 15, 16)
    /\ Len(s) > 16 =>
          \/ /\ s[17] = ":" /\ AllDigits(s, 18, 19)
             /\ Len(s) = 22 => (s[20] = " " /\ s[21] \in {"A", "P"} /\ s[22] = "M")
          \/ /\ Len(s) = 19
             /\ s[17] = " " /\ s[18] \in {"A", "P"} /\ s[19] = "M"

\* the 12-hour adjustment dateutil applies when AM or PM is given
AdjustAmPm(hour, marker) ==
    IF marker = "P" /\ hour < 12 THEN hour + 12
    ELSE IF marker = "A" /\ hour = 12 THEN 0
    ELSE hour

FieldsOf(s) ==
    [year   |-> Num4(s, 1),
     month  |-> Num2(s, 6),
     day    |-> Num2(s, 9),
     hour   |-> IF HasAmPm(s) THEN AdjustAmPm(Num2(s, 12), s[AmPmAt(s) + 1])
                ELSE Num2(s, 12),
     minute |-> Num2(s, 15),
     second |-> IF HasSeconds(s) THEN Num2(s, 18) ELSE 0]

FieldsValid(s) ==
    /\ Num2(s, 6) \in 1..12
    /\ Num2(s, 9) \in 1..DaysInMonth(Num4(s, 1), Num2(s, 6))
    /\ Num2(s, 12) <= (IF HasAmPm(s) THEN 12 ELSE 23)
    /\ Num2(s, 15) <= 59
    /\ HasSeconds(s) => Num2(s, 18) <= 59

\* datetimes an unmodelled input may be parsed to
SampleDatetimes ==
    {[year |-> 2025, month |-> 12, day |-> 23, hour |-> 14, minute |-> 30, second |-> 0],
     [year |-> 2026, month |-> 1, day |-> 1, hour |-> 0, minute |-> 0, second |-> 0]}

ParserError == [year |-> 0, month |-> 0, day |-> 0, hour |-> 0, minute |-> 0, second |-> 0]

\* dateutil's parser.parse: exact on the well-shaped strings; on every
\* other string the library's answer is left open (an error or a datetime).
ParseOutcomes(s) ==
    IF WellShaped(s)
    THEN (IF FieldsValid(s) THEN {FieldsOf(s)} ELSE {ParserError})
    ELSE {ParserError} \cup SampleDatetimes

Fmt2(n) == <<DigitChars[(n \div 10) + 1], DigitChars[(n % 10) + 1]>>
Fmt4(n) == Fmt2(n \div 100) \o Fmt2(n % 100)

\* strftime("%Y-%m-%d")
StrftimeDate(dt) == Fmt4(dt.year) \o <<"-">> \o Fmt2(dt.month) \o <<"-">> \o Fmt2(dt.day)

\* strftime("%Y-%m-%dT%H:%M:%SZ")
StrftimeIso(dt) ==
    StrftimeDate(dt) \o <<"T">> \o Fmt2(dt.hour) \o <<":">> \o Fmt2(dt.minute)
        \o <<":">> \o Fmt2(dt.second) \o <<"Z">>

InvalidTimeFormat == RaiseHTTPException(400, "Invalid time format")

\* convert_time_to_iso8601 without its try/except: a parse error escapes
convert_time_unguarded(time_str, day) ==
    IF Contains(time_str, "T") /\ Contains(time_str, "Z")
    THEN {Return(S(time_str))}
    ELSE LET text == IF Len(time_str) <= 10 /\ Contains(time_str, ":")
                     THEN StrftimeDate(day) \o <<" ">> \o time_str
                     ELSE time_str
         IN  {IF dt = ParserError THEN RaiseException("ParserError")
                                  ELSE Return(S(StrftimeIso(dt))) :
                 dt \in ParseOutcomes(text)}

\* the ways convert_time_to_iso8601(time_str) can end when utcnow() is day
convert_time_to_iso8601(time_str, day) ==
    IF Contains(time_str, "T") /\ Contains(time_str, "Z")
    THEN {Return(S(time_str))}
    ELSE LET text == IF Len(time_str) <= 10 /\ Contains(time_str, ":")
                     THEN StrftimeDate(day) \o <<" ">> \o time_str
                     ELSE time_str
         IN  {IF dt = ParserError THEN InvalidTimeFormat
                                  ELSE Return(S(StrftimeIso(dt))) :
                 dt \in ParseOutcomes(text)}

---------------------------------------------------------------------------
(* Name Splitter: parse_candidate_name *)

Whitespace == {" ", "\t"}
IsSpace(c) == c \in Whitespace

RECURSIVE LStrip(_)
LStrip(s) == IF s # <<>> /\ IsSpace(Head(s)) THEN LStrip(Tail(s)) ELSE s

RECURSIVE RStrip(_)
RStrip(s) == IF s # <<>> /\ IsSpace(s[Len(s)]) THEN RStrip(SubSeq(s, 1, Len(s) - 1)) ELSE s

\* str.strip()
Strip(s) == RStrip(LStrip(s))

\* str.split(): cut at runs of whitespace, no empty pieces
RECURSIVE SplitFrom(_, _, _, _)
SplitFrom(s, i, cur, acc) ==
    IF i > Len(s) THEN (IF cur = <<>> THEN acc ELSE Append(acc, cur))
    ELSE IF IsSpace(s[i])
         THEN SplitFrom(s, i + 1, <<>>, IF cur = <<>> THEN acc ELSE Append(acc, cur))
         ELSE SplitFrom(s, i + 1, Append(cur, s[i]), acc)

Split(s) == SplitFrom(s, 1, <<>>, <<>>)

\* sep.join(parts)
RECURSIVE Join(_, _)
Join(parts, sep) ==
    IF parts = <<>> THEN <<>>
    ELSE IF Len(parts) = 1 THEN parts[1]
    ELSE parts[1] \o sep \o Join(Tail(parts), sep)

User == <<"U", "s", "e", "r">>

\* parse_candidate_name joining the remaining tokens with nothing between them
parse_candidate_name_nosep(candidate_name) ==
    LET parts == Split(Strip(candidate_name))
    IN  IF Len(parts) >= 2 THEN <<parts[1], Join(Tail(parts), <<>>)>>
        ELSE IF Len(parts) = 1 THEN <<parts[1], <<>>>>
        ELSE <<User, <<>>>>

parse_candidate_name(candidate_name) ==
    LET parts == Split(Strip(candidate_name))
    IN  IF Len(parts) >= 2 THEN <<parts[1], Join(Tail(parts), <<" ">>)>>
        ELSE IF Len(parts) = 1 THEN <<parts[1], <<>>>>
        ELSE <<User, <<>>>>

---------------------------------------------------------------------------
(* The upstream service: what it can answer to a request *)

Results == {"ok", "http_error", "not_json"}

\* every JSON object whose keys are some of keys, with the given values
JsonObjects(keys, value) == {[k \in ks |-> value[k]] : ks \in SUBSET keys}

EmptyJson == [k \in {} |-> None]

\* "ok": a 2xx answer carrying a JSON object; "http_error": a transport
\* error or a status raise_for_status() rejects; "not_json": a 2xx answer
\* whose body response.json() cannot decode
Replies(jsons) ==
    {[result |-> "ok", json |-> j] : j \in jsons}
        \cup {[result |-> r, json |-> EmptyJson] : r \in {"http_error", "not_json"}}

Tokens == {"tok_a", "tok_b"}

TokenReplies == Replies(UNION {JsonObjects({"access_token"}, [k \in {"access_token"} |-> S(t)]) : t \in Tokens})

MeetingKeys == {"join_url", "id", "password", "start_time", "duration", "topic"}

MeetingReplies(payload) ==
    Replies(JsonObjects(MeetingKeys,
        [join_url   |-> S("https://zoom.us/j/1"),
         id         |-> I(1),
         password   |-> S("pw"),
         start_time |-> payload.start_time,
         duration   |-> payload.duration,
         topic      |-> payload.topic]))

BookingKeys == {"id", "join_url", "start_time", "status"}

BookingReplies(payload) ==
    Replies(JsonObjects(BookingKeys,
        [id         |-> S("bk_1"),
         join_url   |-> S("https://zoom.us/j/2"),
         start_time |-> payload.start_time,
         status     |-> S("confirmed")]))

Bearer(token) == [scheme |-> "Bearer", credentials |-> token]

---------------------------------------------------------------------------
(* Credential Provider: get_zoom_access_token *)

\* the check written with any() in place of all()
AnyCredentialConfigured(cfg) ==
    Truthy(cfg.client_id) \/ Truthy(cfg.client_secret) \/ Truthy(cfg.account_id)

\* all([ZOOM_CLIENT_ID, ZOOM_CLIENT_SECRET, ZOOM_ACCOUNT_ID])
CredentialsConfigured(cfg) ==
    Truthy(cfg.client_id) /\ Truthy(cfg.client_secret) /\ Truthy(cfg.account_id)

TokenCall(cfg, reply) ==
    [api     |-> "token",
     result  |-> reply.result,
     reply   |-> reply.json,
     auth    |-> [scheme |-> "Basic", credentials |-> <<cfg.client_id, cfg.client_secret>>],
     payload |-> [grant_type |-> "account_credentials", account_id |-> cfg.account_id]]

\* get_zoom_access_token answering None when the request fails
get_zoom_access_token_quiet(cfg) ==
    IF ~CredentialsConfigured(cfg)
    THEN {[out |-> RaiseHTTPException(500, "Zoom credentials not configured"), calls |-> <<>>]}
    ELSE {[out   |-> IF reply.result = "http_error" THEN Return(None)
                     ELSE IF reply.result = "not_json" THEN RaiseException("JSONDecodeError")
                     ELSE IF "access_token" \notin DOMAIN reply.json THEN RaiseException("KeyError")
                     ELSE Return(reply.json["access_token"]),
           calls |-> <<TokenCall(cfg, reply)>>] : reply \in TokenReplies}

\* the ways get_zoom_access_token() can end, each with the requests it sent
get_zoom_access_token(cfg) ==
    IF ~CredentialsConfigured(cfg)
    THEN {[out |-> RaiseHTTPException(500, "Zoom credentials not configured"), calls |-> <<>>]}
    ELSE {[out   |-> IF reply.result = "http_error"
                     THEN RaiseHTTPException(500, "Failed to get Zoom access token")
                     ELSE IF reply.result = "not_json" THEN RaiseException("JSONDecodeError")
                     ELSE IF "access_token" \notin DOMAIN reply.json THEN RaiseException("KeyError")
                     ELSE Return(reply.json["access_token"]),
           calls |-> <<TokenCall(cfg, reply)>>] : reply \in TokenReplies}

---------------------------------------------------------------------------
(* Meeting Creator: create_zoom_meeting *)

MeetingPayload(candidate_name, start_time, duration) ==
    [topic      |-> S(<<"Interview with ">> \o candidate_name),
     type       |-> 2,
     start_time |-> start_time,
     duration   |-> duration,
     settings   |-> [join_before_host |-> TRUE, waiting_room |-> FALSE,
                     host_video |-> TRUE, participant_video |-> TRUE]]

create_zoom_meeting(token, candidate_name, start_time, duration) ==
    LET payload == MeetingPayload(candidate_name, start_time, duration)
    IN  {[out   |-> IF reply.result = "http_error"
                    THEN RaiseHTTPException(500, "Failed to create Zoom meeting")
                    ELSE IF reply.result = "not_json" THEN RaiseException("JSONDecodeError")
                    ELSE Return([join_url   |-> DictGet(reply.json, "join_url"),
                                 meeting_id |-> DictGet(reply.json, "id"),
                                 password   |-> DictGet(reply.json, "password"),
                                 start_time |-> DictGet(reply.json, "start_time"),
                                 duration   |-> DictGet(reply.json, "duration"),
                                 topic      |-> DictGet(reply.json, "topic")]),
          calls |-> <<[api |-> "meeting", result |-> reply.result, reply |-> reply.json,
                       auth |-> Bearer(token), payload |-> payload]>>] :
            reply \in MeetingReplies(payload)}

\* MeetingResponse(...): every field is required, five str and one int
MeetingResponse(join_url, meeting_id, password, start_time, duration, topic) ==
    IF /\ IsStr(join_url) /\ IsStr(meeting_id) /\ IsStr(password)
       /\ IsStr(start_time) /\ IsInt(duration) /\ IsStr(topic)
    THEN Return([join_url |-> join_url, meeting_id |-> meeting_id, password |-> password,
                 start_time |-> start_time, duration |-> duration, topic |-> topic])
    ELSE RaiseException("ValidationError")

---------------------------------------------------------------------------
(* Booking Creator: create_scheduler_booking *)

BookingPayload(start_time, user_email, first_name, last_name) ==
    [start_time |-> start_time,
     invitee    |-> [email |-> user_email, first_name |-> first_name, last_name |-> last_name]]

BookingCall(b, reply) ==
    [api |-> "booking", result |-> reply.result, reply |-> reply.json,
     auth |-> Bearer(b.access_token), schedule_id |-> b.schedule_id,
     payload |-> BookingPayload(b.start_time, b.user_email, b.first_name, b.last_name)]

\* create_scheduler_booking answering a placeholder booking when the request fails
create_scheduler_booking_fallback(b) ==
    LET payload == BookingPayload(b.start_time, b.user_email, b.first_name, b.last_name)
    IN  {[out   |-> IF reply.result = "http_error"
                    THEN Return([booking_id     |-> S(""),
                                 email_sent     |-> FALSE,
                                 meeting_link   |-> S(""),
                                 scheduled_time |-> b.start_time,
                                 status         |-> S("failed"),
                                 invitee_email  |-> b.user_email])
                    ELSE IF reply.result = "not_json" THEN RaiseException("JSONDecodeError")
                    ELSE Return([booking_id     |-> DictGet(reply.json, "id"),
                                 email_sent     |-> TRUE,
                                 meeting_link   |-> DictGetDefault(reply.json, "join_url", S("")),
                                 scheduled_time |-> DictGet(reply.json, "start_time"),
                                 status         |-> DictGetDefault(reply.json, "status", S("created")),
                                 invitee_email  |-> b.user_email]),
          calls |-> <<BookingCall(b, reply)>>] : reply \in BookingReplies(payload)}

\* b holds the six arguments of create_scheduler_booking
create_scheduler_booking(b) ==
    LET payload == BookingPayload(b.start_time, b.user_email, b.first_name, b.last_name)
    IN  {[out   |-> IF reply.result = "http_error"
                    THEN RaiseHTTPException(500, "Failed to create Zoom Scheduler booking")
                    ELSE IF reply.result = "not_json" THEN RaiseException("JSONDecodeError")
                    ELSE Return([booking_id     |-> DictGet(reply.json, "id"),
                                 email_sent     |-> TRUE,
                                 meeting_link   |-> DictGetDefault(reply.json, "join_url", S("")),
                                 scheduled_time |-> DictGet(reply.json, "start_time"),
                                 status         |-> DictGetDefault(reply.json, "status", S("created")),
                                 invitee_email  |-> b.user_email]),
          calls |-> <<BookingCall(b, reply)>>] : reply \in BookingReplies(payload)}

\* SchedulerBookingResponse(...): every field is required
SchedulerBookingResponse(d) ==
    IF /\ IsStr(d.booking_id) /\ d.email_sent \in BOOLEAN /\ IsStr(d.meeting_link)
       /\ IsStr(d.scheduled_time) /\ IsStr(d.status) /\ IsStr(d.invitee_email)
    THEN Return(d)
    ELSE RaiseException("ValidationError")

\* create_scheduler_booking(...) followed by SchedulerBookingResponse(...)
BookingAttempt(r) == IF r.out.kind = "return" THEN SchedulerBookingResponse(r.out.value) ELSE r.out

---------------------------------------------------------------------------
(* Requests and initial state *)

Chars_0230PM    == <<"0", "2", ":", "3", "0", " ", "P", "M">>
Chars_IsoZ      == <<"2", "0", "2", "5", "-", "0", "2", "-", "0", "1", "T",
                     "1", "4", ":", "3", "0", ":", "0", "0", "Z">>
Chars_IsoSpace  == <<"2", "0", "2", "5", "-", "0", "2", "-", "0", "1", " ",
                     "1", "4", ":", "3", "0", ":", "0", "0">>
Chars_IsoT      == <<"2", "0", "2", "5", "-", "0", "2", "-", "0", "1", "T",
                     "1", "4", ":", "3", "0", ":", "0", "0">>
Chars_1430      == <<"1", "4", ":", "3", "0">>
Chars_1430PM    == <<"1", "4", ":", "3", "0", " ", "P", "M">>
Chars_1200AM    == <<"1", "2", ":", "0", "0", " ", "A", "M">>
Chars_Feb30     == <<"2", "0", "2", "5", "-", "0", "2", "-", "3", "0", " ",
                     "1", "4", ":", "3", "0", ":", "0", "0">>
Chars_NotATime  == <<"n", "o", "t", "-", "a", "-", "t", "i", "m", "e">>
Chars_TimeZone  == <<"T", "i", "m", "e", " ", "Z", "o", "n", "e">>

Chars_MarcusChen == <<"M", "a", "r", "c", "u", "s", " ", "C", "h", "e", "n">>
Chars_Madonna    == <<"M", "a", "d", "o", "n", "n", "a">>
Chars_AnaMariaLopez == <<"A", "n", "a", " ", "M", "a", "r", "i", "a", " ",
                         "L", "o", "p", "e", "z">>

Dates == {[year |-> 2025, month |-> 12, day |-> 23, hour |-> 0, minute |-> 0, second |-> 0],
          [year |-> 2026, month |-> 2, day |-> 28, hour |-> 0, minute |-> 0, second |-> 0]}

ConfigValues == {None, S(""), S("configured")}
Configs == [client_id : ConfigValues, client_secret : ConfigValues, account_id : ConfigValues]

RequestTimes == {Chars_0230PM, Chars_IsoZ, Chars_IsoSpace, Chars_NotATime}
RequestNames == {Chars_MarcusChen, <<>>}
Emails == {S("client1@gmail.com")}

\* CreateMeetingRequest
CreateMeetingRequests ==
    [candidate_name : RequestNames, user_email : Emails, start_time : RequestTimes,
     duration : {I(10)}, schedule_id : {None, S(""), S("sched_1")}]

\* SchedulerBookingRequest
SchedulerBookingRequests ==
    [schedule_id : {S(""), S("sched_1")}, start_time : RequestTimes, user_email : Emails,
     first_name : {S(<<"A", "n", "a">>)}, last_name : {S(<<>>), S(<<"L", "o", "p", "e", "z">>)}]

NoRequest == [none |-> TRUE]
NoResponse == [status_code |-> 0, detail |-> "", body |-> None]

\* the handler's locals before its first statement
Fresh ==
    /\ iso_start_time' = None
    /\ access_token' = None
    /\ meeting_details' = None
    /\ meeting_response' = None
    /\ scheduler_booking_response' = None
    /\ workflow_status' = ""
    /\ calls' = <<>>
    /\ response' = NoResponse

Init ==
    /\ config \in Configs
    /\ today \in Dates
    /\ endpoint = "none"
    /\ request = NoRequest
    /\ pc = "idle"
    /\ iso_start_time = None
    /\ access_token = None
    /\ meeting_details = None
    /\ meeting_response = None
    /\ scheduler_booking_response = None
    /\ workflow_status = ""
    /\ calls = <<>>
    /\ response = NoResponse
    /\ arg = <<>>
    /\ ret = None

---------------------------------------------------------------------------
(* POST /api/zoom/create-meeting: create_meeting *)

\* the handler's outer except clauses: an HTTPException is re-raised, any
\* other exception becomes a 500 whose detail starts with text
ErrorResponse(o, text) ==
    IF o.kind = "HTTPException"
    THEN [status_code |-> o.status_code, detail |-> o.detail, body |-> None]
    ELSE [status_code |-> 500, detail |-> text, body |-> None]

Ok(body) == [status_code |-> 200, detail |-> "", body |-> body]

ReceiveCreateMeeting ==
    /\ pc \in {"idle", "done"}
    /\ \E req \in CreateMeetingRequests : request' = req
    /\ endpoint' = "create_meeting"
    /\ pc' = "cm_normalize"
    /\ Fresh
    /\ UNCHANGED <<config, today, arg, ret>>

\* Step 1
CM_Normalize ==
    /\ pc = "cm_normalize"
    /\ \E o \in convert_time_to_iso8601(request.start_time, today) :
          IF o.kind = "return"
          THEN /\ iso_start_time' = o.value
               /\ pc' = "cm_token"
               /\ UNCHANGED response
          ELSE /\ response' = ErrorResponse(o, "Unexpected error")
               /\ pc' = "done"
               /\ UNCHANGED iso_start_time
    /\ UNCHANGED <<config, today, endpoint, request, access_token, meeting_details,
                   meeting_response, scheduler_booking_response, workflow_status,
                   calls, arg, ret>>

\* Step 2
CM_Token ==
    /\ pc = "cm_token"
    /\ \E r \in get_zoom_access_token(config) :
          /\ calls' = calls \o r.calls
          /\ IF r.out.kind = "return"
             THEN /\ access_token' = r.out.value
                  /\ pc' = "cm_meeting"
                  /\ UNCHANGED response
             ELSE /\ response' = ErrorResponse(r.out, "Unexpected error")
                  /\ pc' = "done"
                  /\ UNCHANGED access_token
    /\ UNCHANGED <<config, today, endpoint, request, iso_start_time, meeting_details,
                   meeting_response, scheduler_booking_response, workflow_status,
                   arg, ret>>

\* Step 3, the upstream request
CM_Meeting ==
    /\ pc = "cm_meeting"
    /\ \E r \in create_zoom_meeting(access_token, request.candidate_name,
                                    iso_start_time, request.duration) :
          /\ calls' = calls \o r.calls
          /\ IF r.out.kind = "return"
             THEN /\ meeting_details' = r.out.value
                  /\ pc' = "cm_model"
                  /\ UNCHANGED response
             ELSE /\ response' = ErrorResponse(r.out, "Unexpected error")
                  /\ pc' = "done"
                  /\ UNCHANGED meeting_details
    /\ UNCHANGED <<config, today, endpoint, request, iso_start_time, access_token,
                   meeting_response, scheduler_booking_response, workflow_status,
                   arg, ret>>

\* Step 3, the MeetingResponse, and the two assignments that open step 4
CM_Model ==
    /\ pc = "cm_model"
    /\ LET o == MeetingResponse(meeting_details.join_url,
                                PyStr(meeting_details.meeting_id),
                                meeting_details.password,
                                meeting_details.start_time,
                                meeting_details.duration,
                                meeting_details.topic)
       IN  IF o.kind = "return"
           THEN /\ meeting_response' = o.value
                /\ scheduler_booking_response' = None
                /\ workflow_status' = "meeting_only"
                /\ pc' = IF Truthy(request.schedule_id) THEN "cm_booking" ELSE "cm_return"
                /\ UNCHANGED response
           ELSE /\ response' = ErrorResponse(o, "Unexpected error")
                /\ pc' = "done"
                /\ UNCHANGED <<meeting_response, scheduler_booking_response, workflow_status>>
    /\ UNCHANGED <<config, today, endpoint, request, iso_start_time, access_token,
                   meeting_details, calls, arg, ret>>

\* the arguments built from the unnormalized request time
booking_arguments_raw(req, token, iso) ==
    LET name == parse_candidate_name(req.candidate_name)
    IN  [access_token |-> token, schedule_id |-> req.schedule_id,
         start_time |-> S(req.start_time), user_email |-> req.user_email,
         first_name |-> S(name[1]), last_name |-> S(name[2])]

\* the arguments create_meeting passes to create_scheduler_booking
booking_arguments(req, token, iso) ==
    LET name == parse_candidate_name(req.candidate_name)
    IN  [access_token |-> token, schedule_id |-> req.schedule_id,
         start_time |-> iso, user_email |-> req.user_email,
         first_name |-> S(name[1]), last_name |-> S(name[2])]

\* the inner try with an HTTPException clause that re-raises
booking_step_reraise(o) ==
    IF o.kind = "return"
    THEN [raised |-> FALSE, scheduler_booking_response |-> o.value,
          workflow_status |-> "meeting_with_email"]
    ELSE [raised |-> o.kind = "HTTPException", scheduler_booking_response |-> None,
          workflow_status |-> "meeting_created_booking_failed"]

\* the inner try without the assignment of "meeting_with_email"
booking_step_untagged(o) ==
    IF o.kind = "return"
    THEN [raised |-> FALSE, scheduler_booking_response |-> o.value,
          workflow_status |-> "meeting_only"]
    ELSE [raised |-> FALSE, scheduler_booking_response |-> None,
          workflow_status |-> "meeting_created_booking_failed"]

\* what the inner try of step 4 leaves, o being how its body ended; raised
\* says whether an exception leaves the inner try (both clauses swallow it)
booking_step(o) ==
    IF o.kind = "return"
    THEN [raised |-> FALSE, scheduler_booking_response |-> o.value,
          workflow_status |-> "meeting_with_email"]
    ELSE [raised |-> FALSE, scheduler_booking_response |-> None,
          workflow_status |-> "meeting_created_booking_failed"]

\* Step 4
CM_Booking ==
    /\ pc = "cm_booking"
    /\ \E r \in create_scheduler_booking(booking_arguments(request, access_token, iso_start_time)) :
          LET o == BookingAttempt(r)
              b == booking_step(o)
          IN  /\ calls' = calls \o r.calls
              /\ IF b.raised
                 THEN /\ response' = ErrorResponse(o, "Unexpected error")
                      /\ pc' = "done"
                      /\ UNCHANGED <<scheduler_booking_response, workflow_status>>
                 ELSE /\ scheduler_booking_response' = b.scheduler_booking_response
                      /\ workflow_status' = b.workflow_status
                      /\ pc' = "cm_return"
                      /\ UNCHANGED response
    /\ UNCHANGED <<config, today, endpoint, request, iso_start_time, access_token,
                   meeting_details, meeting_response, arg, ret>>

\* Step 5
CM_Return ==
    /\ pc = "cm_return"
    /\ response' = Ok([meeting |-> meeting_response,
                       scheduler_booking |-> scheduler_booking_response,
                       workflow_status |-> workflow_status])
    /\ pc' = "done"
    /\ UNCHANGED <<config, today, endpoint, request, iso_start_time, access_token,
                   meeting_details, meeting_response, scheduler_booking_response,
                   workflow_status, calls, arg, ret>>

---------------------------------------------------------------------------
(* POST /api/zoom/scheduler/book: book_scheduler_meeting *)

ReceiveBook ==
    /\ pc \in {"idle", "done"}
    /\ \E req \in SchedulerBookingRequests : request' = req
    /\ endpoint' = "book"
    /\ pc' = "bk_token"
    /\ Fresh
    /\ UNCHANGED <<config, today, arg, ret>>

\* Step 1
BK_Token ==
    /\ pc = "bk_token"
    /\ \E r \in get_zoom_access_token(config) :
          /\ calls' = calls \o r.calls
          /\ IF r.out.kind = "return"
             THEN /\ access_token' = r.out.value
                  /\ pc' = "bk_booking"
                  /\ UNCHANGED response
             ELSE /\ response' = ErrorResponse(r.out, "Unexpected error creating Scheduler booking")
                  /\ pc' = "done"
                  /\ UNCHANGED access_token
    /\ UNCHANGED <<config, today, endpoint, request, iso_start_time, meeting_details,
                   meeting_response, scheduler_booking_response, workflow_status,
                   arg, ret>>

\* Steps 2 and 3
BK_Booking ==
    /\ pc = "bk_booking"
    /\ \E r \in create_scheduler_booking(
                    [access_token |-> access_token, schedule_id |-> request.schedule_id,
                     start_time |-> S(request.start_time), user_email |-> request.user_email,
                     first_name |-> request.first_name, last_name |-> request.last_name]) :
          LET o == BookingAttempt(r)
          IN  /\ calls' = calls \o r.calls
              /\ response' = IF o.kind = "return" THEN Ok(o.value)
                             ELSE ErrorResponse(o, "Unexpected error creating Scheduler booking")
              /\ pc' = "done"
    /\ UNCHANGED <<config, today, endpoint, request, iso_start_time, access_token,
                   meeting_details, meeting_response, scheduler_booking_response,
                   workflow_status, arg, ret>>

Next ==
    \/ ReceiveCreateMeeting
    \/ CM_Normalize
    \/ CM_Token
    \/ CM_Meeting
    \/ CM_Model
    \/ CM_Booking
    \/ CM_Return
    \/ ReceiveBook
    \/ BK_Token
    \/ BK_Booking

Spec == Init /\ [][Next]_vars

---------------------------------------------------------------------------
(* The two helpers called on their own *)

TimeChars == {"T", "Z", ":", "1"}
SampleTimes == {Chars_0230PM, Chars_IsoZ, Chars_IsoSpace, Chars_IsoT, Chars_1430,
                Chars_1430PM, Chars_1200AM, Chars_Feb30, Chars_NotATime, Chars_TimeZone}
TimeInputs == SeqsUpTo(TimeChars, MaxTimeLen) \cup SampleTimes

NameChars == {"a", "b", " ", "\t"}
SampleNames == {Chars_MarcusChen, Chars_Madonna, Chars_AnaMariaLopez}
NameInputs == SeqsUpTo(NameChars, MaxNameLen) \cup SampleNames

Idle ==
    /\ config = [client_id |-> None, client_secret |-> None, account_id |-> None]
    /\ endpoint = "none"
    /\ request = NoRequest
    /\ iso_start_time = None
    /\ access_token = None
    /\ meeting_details = None
    /\ meeting_response = None
    /\ scheduler_booking_response = None
    /\ workflow_status = ""
    /\ calls = <<>>
    /\ response = NoResponse

InitTime ==
    /\ Idle
    /\ today \in Dates
    /\ pc = "time_call"
    /\ arg \in TimeInputs
    /\ ret = None

CallConvertTime ==
    /\ pc = "time_call"
    /\ \E o \in convert_time_to_iso8601(arg, today) : ret' = o
    /\ pc' = "time_done"
    /\ UNCHANGED <<config, today, endpoint, request, iso_start_time, access_token,
                   meeting_details, meeting_response, scheduler_booking_response,
                   workflow_status, calls, response, arg>>

NextTime == CallConvertTime

SpecTime == InitTime /\ [][NextTime]_vars

InitName ==
    /\ Idle
    /\ today \in Dates
    /\ pc = "name_call"
    /\ arg \in NameInputs
    /\ ret = None

CallParseName ==
    /\ pc = "name_call"
    /\ ret' = parse_candidate_name(arg)
    /\ pc' = "name_done"
    /\ UNCHANGED <<config, today, endpoint, request, iso_start_time, access_token,
                   meeting_details, meeting_response, scheduler_booking_response,
                   workflow_status, calls, response, arg>>

NextName == CallParseName

SpecName == InitName /\ [][NextName]_vars

---------------------------------------------------------------------------
(* Vocabulary of the properties *)

Done == pc = "done"
InCreateMeeting == endpoint = "create_meeting"
InBook == endpoint = "book"

CallsTo(api) == {i \in 1..Len(calls) : calls[i].api = api}
CallApis == [i \in 1..Len(calls) |-> calls[i].api]
IsPrefix(s, t) == Len(s) <= Len(t) /\ \A i \in 1..Len(s) : s[i] = t[i]

Missing(v) == v = None \/ v = S("")
SecretMissing ==
    Missing(config.client_id) \/ Missing(config.client_secret) \/ Missing(config.account_id)

\* the upstream answer to call c cannot be used: an error, an undecodable
\* body, or a JSON object without the keys in needed
Unusable(c, needed) == c.result # "ok" \/ ~(needed \subseteq DOMAIN c.reply)

TokenCallFailed == \E i \in CallsTo("token") : Unusable(calls[i], {"access_token"})
MeetingCallFailed == \E i \in CallsTo("meeting") : calls[i].result # "ok"
BookingCallFailed == \E i \in CallsTo("booking") : calls[i].result # "ok"
\* the booking could not be created or could not be assembled into a record
BookingStepFailed == \E i \in CallsTo("booking") : Unusable(calls[i], {"id", "start_time"})

WorkflowTags == {"meeting_only", "meeting_with_email", "meeting_created_booking_failed"}

\* the handler has answered with a CombinedMeetingResponse
Combined == Done /\ InCreateMeeting /\ response.status_code = 200

---------------------------------------------------------------------------
(* C1: in every CombinedMeetingResult that create-meeting returns, the     *)
(* workflow status is one of the three tags; it is meeting_with_email      *)
(* exactly when scheduler_booking is present; it is                        *)
(* meeting_created_booking_failed only when a schedule_id was supplied and *)
(* the booking step raised; in every other case, no schedule_id included,  *)
(* it is meeting_only and scheduler_booking is absent.                     *)
C1_WorkflowStatusInvariant ==
    Combined =>
        LET body == response.body
            present == body.scheduler_booking # None
            supplied == request.schedule_id # None
        IN  /\ body.workflow_status \in WorkflowTags
            /\ (body.workflow_status = "meeting_with_email") <=> present
            /\ body.workflow_status = "meeting_created_booking_failed"
                  => (supplied /\ BookingStepFailed)
            /\ (~present /\ ~(supplied /\ BookingStepFailed))
                  => body.workflow_status = "meeting_only"
            /\ ~Truthy(request.schedule_id)
                  => (body.workflow_status = "meeting_only" /\ ~present)

C1_Witness ==
    /\ Combined
    /\ response.body.workflow_status = "meeting_with_email"
    /\ response.body.scheduler_booking # None

C3_BadTimeIs400NoCalls ==
    (InCreateMeeting /\ iso_start_time = None) =>
        /\ calls = <<>>
        /\ Done => response.status_code = 400

C3_Witness ==
    /\ Done /\ InCreateMeeting
    /\ iso_start_time = None
    /\ response.status_code = 400

\* the configuration error, answered without any upstream request
ConfigurationError ==
    /\ response.status_code = 500
    /\ response.detail = "Zoom credentials not configured"
    /\ calls = <<>>

(* C4 as stated: with a secret missing, every request to create-meeting or *)
(* to scheduler/book is answered 500 with the configuration detail, no     *)
(* upstream request having been sent.                                      *)
C4_MissingSecretAlways500 ==
    (Done /\ SecretMissing) => ConfigurationError

(* C4 as amended: with a secret missing (unset or empty) no upstream       *)
(* request is ever sent; scheduler/book always answers 500 with the        *)
(* configuration detail, and so does create-meeting whenever start_time    *)
(* normalizes; a create-meeting request whose start_time does not          *)
(* normalize is answered 400.                                              *)
C4_MissingSecret500AfterNormalize ==
    SecretMissing =>
        /\ calls = <<>>
        /\ (Done /\ InBook) => ConfigurationError
        /\ (Done /\ InCreateMeeting /\ iso_start_time # None) => ConfigurationError
        /\ (Done /\ InCreateMeeting /\ iso_start_time = None) => response.status_code = 400

C4_Witness ==
    /\ Done /\ InCreateMeeting
    /\ SecretMissing
    /\ ~Missing(config.client_id) /\ ~Missing(config.client_secret)
    /\ iso_start_time # None
    /\ response.status_code = 500

(* C5: in create-meeting a failed token step ends the request with 500     *)
(* and neither the meeting nor the booking request is sent; a failed       *)
(* meeting request ends it with 500 and no booking request is sent, also   *)
(* when a schedule_id was supplied.                                        *)
C5_FailureAborts ==
    InCreateMeeting =>
        /\ (iso_start_time # None /\ (SecretMissing \/ TokenCallFailed)) =>
              /\ CallsTo("meeting") = {} /\ CallsTo("booking") = {}
              /\ Done => response.status_code = 500
        /\ MeetingCallFailed =>
              /\ CallsTo("booking") = {}
              /\ Done => response.status_code = 500

C5_Witness ==
    /\ Done /\ InCreateMeeting
    /\ Truthy(request.schedule_id)
    /\ MeetingCallFailed
    /\ response.status_code = 500

(* C6: when the meeting request succeeds with a JSON object that lacks     *)
(* some of join_url, id, password, start_time, duration, topic, the        *)
(* Meeting Creator returns None for them and create-meeting does not fail  *)
(* the request because of them.                                            *)
C6_PartialMeetingTolerated ==
    /\ (InCreateMeeting /\ meeting_details # None) =>
          \A k \in MeetingKeys \ DOMAIN calls[2].reply :
              meeting_details[IF k = "id" THEN "meeting_id" ELSE k] = None
    /\ (Done /\ InCreateMeeting /\ CallsTo("meeting") # {} /\ ~MeetingCallFailed) =>
          response.status_code = 200

(* C7: whenever the Time Normalizer returns, what it returns has the form  *)
(* YYYY-MM-DDTHH:MM:SSZ, on each of its three branches.                    *)
IsCanonical(s) ==
    /\ Len(s) = 20
    /\ \A i \in {1, 2, 3, 4, 6, 7, 9, 10, 12, 13, 15, 16, 18, 19} : IsDigit(s[i])
    /\ s[5] = "-" /\ s[8] = "-" /\ s[11] = "T"
    /\ s[14] = ":" /\ s[17] = ":" /\ s[20] = "Z"

C7_ReturnsCanonical ==
    (pc = "time_done" /\ ret.kind = "return") => IsCanonical(ret.value.s)

\* the tokens of s by position: where each starts and ends
TokenStarts(s) == {i \in 1..Len(s) : ~IsSpace(s[i]) /\ (i = 1 \/ IsSpace(s[i - 1]))}
TokenEnd(s, i) == CHOOSE j \in i..Len(s) :
                      /\ \A k \in i..j : ~IsSpace(s[k])
                      /\ j = Len(s) \/ IsSpace(s[j + 1])
KthStart(s, k) == CHOOSE i \in TokenStarts(s) :
                      Cardinality({j \in TokenStarts(s) : j < i}) = k - 1
Token(s, k) == SubSeq(s, KthStart(s, k), TokenEnd(s, KthStart(s, k)))
TokenCount(s) == Cardinality(TokenStarts(s))

\* s is tokens separated by exactly one " " each
SingleSpaced(s) ==
    /\ s # <<>> => (~IsSpace(s[1]) /\ ~IsSpace(s[Len(s)]))
    /\ \A i \in 1..Len(s) : IsSpace(s[i]) => s[i] = " "
    /\ \A i \in 1..(Len(s) - 1) : ~(IsSpace(s[i]) /\ IsSpace(s[i + 1]))

(* C8: the Name Splitter returns (first, last) where, of the name's        *)
(* whitespace-separated tokens: with two or more, first is the first token *)
(* and last the remaining ones joined by single spaces; with one, first is *)
(* it and last is empty; with none, first is "User" and last is empty.     *)
(* first is never empty and never contains whitespace.                     *)
C8_NameSplit ==
    pc = "name_done" =>
        LET first == ret[1]
            last == ret[2]
            n == TokenCount(arg)
        IN  /\ n = 0 => (first = User /\ last = <<>>)
            /\ n = 1 => (first = Token(arg, 1) /\ last = <<>>)
            /\ n >= 2 => /\ first = Token(arg, 1)
                         /\ SingleSpaced(last)
                         /\ TokenCount(last) = n - 1
                         /\ \A k \in 1..(n - 1) : Token(last, k) = Token(arg, k + 1)
            /\ first # <<>>
            /\ \A i \in 1..Len(first) : ~IsSpace(first[i])

C8_Witness ==
    /\ pc = "name_done"
    /\ TokenCount(arg) >= 3
    /\ Len(ret[2]) >= 3

(* C9: scheduler/book sends a token request, then at most one booking      *)
(* request, and never a meeting request; a failure of the token step or of *)
(* the booking step is answered 500 with a detail; it answers 200 only     *)
(* when the booking request succeeded.                                     *)
C9_BookSurfacesFailures ==
    InBook =>
        /\ IsPrefix(CallApis, <<"token", "booking">>)
        /\ Done =>
              /\ response.status_code \in {200, 500}
              /\ (SecretMissing \/ TokenCallFailed \/ BookingStepFailed) =>
                    (response.status_code = 500 /\ response.detail # "")
              /\ response.status_code = 200 =>
                    (CallsTo("booking") # {} /\ ~BookingCallFailed)

C9_Witness ==
    /\ Done /\ InBook
    /\ BookingCallFailed
    /\ response.status_code = 500

(* C10: the upstream requests of one create-meeting request are a prefix   *)
(* of token, meeting, booking: each at most once, each only after the      *)
(* earlier ones succeeded, the booking request only for a non-empty        *)
(* schedule_id, and with the bearer token and the normalized start time    *)
(* the meeting request carried.                                            *)
C10_CallSequence ==
    InCreateMeeting =>
        /\ IsPrefix(CallApis, <<"token", "meeting", "booking">>)
        /\ \A i \in 1..(Len(calls) - 1) : calls[i].result = "ok"
        /\ CallsTo("meeting") # {} =>
              /\ ~TokenCallFailed
              /\ calls[2].payload.start_time = iso_start_time
        /\ CallsTo("booking") # {} =>
              /\ Truthy(request.schedule_id)
              /\ calls[3].auth = calls[2].auth
              /\ calls[3].payload.start_time = calls[2].payload.start_time

C10_Witness ==
    /\ InCreateMeeting
    /\ Len(calls) = 3
    /\ request.start_time = Chars_0230PM
    /\ iso_start_time # S(request.start_time)

====
